---- MODULE Spec2Model ----
(***************************************************************************)
(* A model of one docker-squash invocation: Squash.run (squash.py) driving *)
(* V2Image (v2_image.py) over a source image that comes either from an     *)
(* archive on disk or from the container engine.                           *)
(*                                                                         *)
(* Python strings are modelled as sequences of path components (the parts  *)
(* between "/"), each component a sequence of tokens, so that split("/"),  *)
(* startswith, the "sha256:" prefixing and os.path.join are computed the   *)
(* way the code computes them.  SHA-256 is an injective constructor.       *)
(***************************************************************************)
EXTENDS Integers, Sequences, FiniteSets, TLC

\* Longest config history the model explores.
MaxLayers == 5
\* Largest number of non-empty history entries that lack a manifest layer.
MaxShortfall == 1
\* Longest config history explored together with every option of a run.
MaxOptionLayers == 3

Min(a, b) == IF a < b THEN a ELSE b

\* x[:n] of Python, for n >= 0.
Prefix(s, n) == SubSeq(s, 1, Min(n, Len(s)))
\* x[n:] of Python, for n >= 0.
Suffix(s, n) == SubSeq(s, Min(n, Len(s)) + 1, Len(s))
Last(s) == s[Len(s)]

(***************************************************************************)
(* Strings.                                                                *)
(***************************************************************************)
\* A string without "/" made of one token.
Str(tok) == << <<tok>> >>
\* os.path.join(a, b) for relative b.
PathJoin(a, b) == a \o b
\* "sha256:%s" % s  and  f"sha256:{s}".
Sha256Prefix(s) == IF s = <<>> THEN Str("sha256:") ELSE << <<"sha256:">> \o s[1] >> \o Tail(s)
\* s.startswith(tok)
StartsWith(s, tok) == Len(s) > 0 /\ Len(s[1]) > 0 /\ s[1][1] = tok
\* s.split("/")[0]  and  s.rsplit("/")[0]
FirstComponent(s) == IF s = <<>> THEN <<>> ELSE <<s[1]>>
\* s.split(":", 1)[1] for a string that starts with "sha256:".
AfterColon(s) == << Tail(s[1]) >> \o Tail(s)
\* f"<missing-{i}>"
MissingId(i) == << <<"<missing-", ToString(i), ">">> >>
\* layer_id.startswith("<missing-")
IsMissing(s) == StartsWith(s, "<missing-")

\* a + b
StrCat(a, b) ==
    IF a = <<>> THEN b
    ELSE IF b = <<>> THEN a
    ELSE SubSeq(a, 1, Len(a) - 1) \o <<Last(a) \o b[1]>> \o Tail(b)
\* A string with no characters, however it was put together.
IsEmptyStr(s) == s = <<>> \/ s = << <<>> >>

(***************************************************************************)
(* Image names and tags.  In these strings ":" is a token of its own.      *)
(***************************************************************************)
\* Position of the last ":" among the tokens of a component, 0 when none.
LastColon(comp) ==
    IF \E i \in 1..Len(comp) : comp[i] = ":"
    THEN CHOOSE i \in 1..Len(comp) :
            comp[i] = ":" /\ \A j \in (i + 1)..Len(comp) : comp[j] # ":"
    ELSE 0

\* ":" in image and "/" not in image.split(":")[-1]
HasTagPart(image) == image # <<>> /\ LastColon(Last(image)) > 0

\* _parse_image_name: (image_name, image_tag).
ParseImageName(image) ==
    IF HasTagPart(image)
    THEN LET comp == Last(image)
             c == LastColon(comp)
             tag_tokens == SubSeq(comp, c + 1, Len(comp))
             name_tokens == SubSeq(comp, 1, c - 1)
         IN [name |-> IF Len(image) = 1 /\ name_tokens = <<>> THEN <<>>
                      ELSE SubSeq(image, 1, Len(image) - 1) \o <<name_tokens>>,
             tag |-> IF tag_tokens = <<>> THEN <<>> ELSE <<tag_tokens>>]
    ELSE [name |-> image, tag |-> Str("latest")]

\* "%s:%s" % (image_name, image_tag)
RepoTag(image_name, image_tag) == StrCat(StrCat(image_name, Str(":")), image_tag)

\* Hex name of the j-th manifest layer (directory name or blob digest).
LayerHex(j) == Str("L" \o ToString(j))
\* Content of the j-th layer's tar file and of the merged tar of some layers.
TarContent(j) == <<"tar", ToString(j)>>
\* hashlib.sha256(content).hexdigest(): injective in the content.
Sha256Hex(content) == << <<"sha256(">> \o content \o <<")">> >>

(***************************************************************************)
(* The source image.  kind names the layout of the archive (the one given  *)
(* as input, or the one the engine exports); hist is the sequence of       *)
(* empty_layer flags of config.history; m is the manifest's layer count.   *)
(***************************************************************************)
\* Archives whose layers the run goes on to process.
LayeredKinds == {"docker_dirs", "docker_blobs", "oci", "oci_fallback"}
\* Archives that only exercise extraction, detection and loading.
LoaderKinds == {"no_marker", "corrupt", "oci_only", "oci_nested", "oci_empty_index",
                "oci_no_manifest", "oci_nested_empty", "oci_nested_missing",
                "oci_no_config", "oci_no_config_blob",
                "docker_empty_manifest", "docker_no_config_file"}
TarKinds == LayeredKinds \cup LoaderKinds
DaemonKinds == {"docker_dirs", "oci"}

ConfigFile == Str("config.json")
BlobPath(hex) == << <<"blobs">>, <<"sha256">> >> \o hex
ConfigBlob == BlobPath(Str("cfg"))
ManifestBlob == BlobPath(Str("mf"))
NestedManifestBlob == BlobPath(Str("mf2"))

\* The archives that store layers in per-layer directories.
DirKinds == {"docker_dirs", "docker_empty_manifest", "docker_no_config_file"}

\* The reference manifest.json holds for layer j.
DockerLayerRef(kind, j) ==
    IF kind \in DirKinds THEN PathJoin(LayerHex(j), Str("layer.tar"))
    ELSE BlobPath(LayerHex(j))

\* manifest.json[0]: the Docker-v2 dialect ("Config", "Layers").
DockerManifest(kind, m) ==
    [dialect |-> "docker",
     config |-> IF kind \in DirKinds THEN ConfigFile ELSE ConfigBlob,
     layers |-> [j \in 1..m |-> DockerLayerRef(kind, j)]]

\* The array manifest.json holds.
DockerManifests(kind, m) ==
    IF kind = "docker_empty_manifest" THEN <<>> ELSE <<DockerManifest(kind, m)>>

\* The manifest blob of an OCI layout ("config", "layers" descriptors): the
\* layers field holds the descriptors' digests.
OciManifest(m) ==
    [dialect |-> "oci",
     config |-> Sha256Prefix(Str("cfg")),
     layers |-> [j \in 1..m |-> Sha256Prefix(LayerHex(j))]]

NoManifest == [dialect |-> "none", config |-> <<>>, layers |-> <<>>]

\* index.json: the digests of its manifest descriptors.
IndexManifests(kind) ==
    IF kind = "oci_empty_index" THEN <<>> ELSE <<Sha256Prefix(Str("mf"))>>

\* The blob index.json points at: an image manifest, or a nested index with
\* the digests of its own manifest descriptors.
ManifestBlobContent(kind, m) ==
    CASE kind \in {"oci_nested", "oci_nested_missing"} ->
            [media |-> "index", manifests |-> <<Sha256Prefix(Str("mf2"))>>,
             manifest |-> NoManifest]
      [] kind = "oci_nested_empty" ->
            [media |-> "index", manifests |-> <<>>, manifest |-> NoManifest]
      [] kind = "oci_no_config" ->
            [media |-> "manifest", manifests |-> <<>>,
             manifest |-> [OciManifest(m) EXCEPT !.config = <<>>]]
      [] OTHER ->
            [media |-> "manifest", manifests |-> <<>>, manifest |-> OciManifest(m)]

\* Where the j-th layer's tar is stored in the archive.
LayerTarFile(kind, j) == DockerLayerRef(kind, j)

\* The files of the extracted archive (paths relative to old_image_dir).
ArchiveFiles(kind, m) ==
    LET layer_tars == {LayerTarFile(kind, j) : j \in 1..m} IN
    CASE kind \in {"no_marker", "corrupt"} -> {}
      [] kind \in {"docker_dirs", "docker_empty_manifest"} ->
            {Str("manifest.json"), ConfigFile} \cup layer_tars
            \cup {PathJoin(LayerHex(j), Str("json")) : j \in 1..m}
      [] kind = "docker_no_config_file" ->
            {Str("manifest.json")} \cup layer_tars
      [] kind = "docker_blobs" ->
            {Str("manifest.json"), ConfigBlob} \cup layer_tars
      [] kind = "oci_only" ->
            {Str("index.json"), ManifestBlob, ConfigBlob} \cup layer_tars
      [] kind = "oci_fallback" ->
            {Str("index.json"), Str("manifest.json"), ConfigBlob} \cup layer_tars
      [] kind = "oci_no_manifest" ->
            {Str("index.json"), ConfigBlob} \cup layer_tars
      [] kind = "oci_nested" ->
            {Str("index.json"), Str("manifest.json"), ManifestBlob, NestedManifestBlob,
             ConfigBlob} \cup layer_tars
      [] kind = "oci_no_config_blob" ->
            {Str("index.json"), Str("manifest.json"), ManifestBlob} \cup layer_tars
      [] OTHER ->
            {Str("index.json"), Str("manifest.json"), ManifestBlob, ConfigBlob}
            \cup layer_tars

\* config.history: entry i (0-based position pos) with its empty_layer flag.
SourceHistory(hist) ==
    [i \in 1..Len(hist) |-> [pos |-> i - 1, empty_layer |-> hist[i], origin |-> "source",
                             comment |-> "", created |-> "t0"]]

\* config.rootfs.diff_ids: one per layer the manifest lists.
SourceDiffIds(m) == [j \in 1..m |-> Sha256Prefix(Sha256Hex(TarContent(j)))]

NonEmptyCount(hist) == Cardinality({i \in 1..Len(hist) : ~hist[i]})

(***************************************************************************)
(* Manifest field reads.                                                   *)
(***************************************************************************)
\* "Layers" in manifest / "Config" in manifest: only the Docker-v2 dialect has them.
HasDockerKeys(manifest) == manifest.dialect = "docker"
\* manifest.get("Layers", [])
GetLayersUpper(manifest) == IF manifest.dialect = "docker" THEN manifest.layers ELSE <<>>
\* [d["digest"] for d in manifest.get("layers", [])]
GetLayersLower(manifest) == IF manifest.dialect = "oci" THEN manifest.layers ELSE <<>>

(***************************************************************************)
(* Layer normalizer (archive input).                                       *)
(***************************************************************************)
\* The identifiers the history walk consumes, in manifest order.
ManifestLayerIds(oci, manifest) ==
    IF oci THEN GetLayersLower(manifest)
    ELSE [j \in 1..Len(GetLayersUpper(manifest)) |->
              Sha256Prefix(FirstComponent(GetLayersUpper(manifest)[j]))]

\* The walk over config.history from entry i on (1-based here, i - 1 in the
\* code), idx being manifest_layer_index.
RECURSIVE HistoryWalk(_, _, _, _)
HistoryWalk(history, ids, i, idx) ==
    IF i > Len(history) THEN <<>>
    ELSE IF history[i].empty_layer
         THEN <<MissingId(i - 1)>> \o HistoryWalk(history, ids, i + 1, idx)
         ELSE IF idx < Len(ids)
              THEN <<ids[idx + 1]>> \o HistoryWalk(history, ids, i + 1, idx + 1)
              ELSE HistoryWalk(history, ids, i + 1, idx)

BuildLayerListFromTar(oci, manifest, config) ==
    HistoryWalk(config.history, ManifestLayerIds(oci, manifest), 1, 0)

(***************************************************************************)
(* Squash planner.                                                         *)
(***************************************************************************)
NoBoundary == [kind |-> "none", num |-> 0, id |-> <<>>]
NumBoundary(k) == [kind |-> "num", num |-> k, id |-> <<>>]
IdBoundary(s) == [kind |-> "id", num |-> 0, id |-> s]

InList(layers, x) == \E i \in 1..Len(layers) : layers[i] = x
\* list.index(x): the first position, 0-based.
IndexOf(layers, x) ==
    (CHOOSE i \in 1..Len(layers) :
        layers[i] = x /\ \A j \in 1..(i - 1) : layers[j] # x) - 1

\* from_layer after "if self.from_layer is None".
DefaultBoundary(from, layers) ==
    IF from.kind = "none" THEN NumBoundary(Len(layers)) ELSE from

\* The except ValueError branch finds the identifier in the list.
BoundaryResolves(from, layers) == from.kind = "num" \/ InList(layers, from.id)

\* number_of_layers with the "- 1" of the index arithmetic left out.
NumberOfLayers_OffByOne(from, layers) ==
    IF from.kind = "num" THEN from.num
    ELSE Len(layers) - IndexOf(layers, from.id)

\* number_of_layers, for a boundary that resolves.
NumberOfLayers(from, layers) ==
    IF from.kind = "num" THEN from.num
    ELSE Len(layers) - IndexOf(layers, from.id) - 1

\* _validate_number_of_layers with "<" for "<=" in its first test.
ValidateNumberOfLayers_ZeroPasses(number_of_layers_, n_layers) ==
    IF number_of_layers_ < 0 THEN "SquashError"
    ELSE IF number_of_layers_ > n_layers THEN "SquashError"
    ELSE ""

\* _validate_number_of_layers: the error it raises, "" when it returns.
ValidateNumberOfLayers(number_of_layers_, n_layers) ==
    IF number_of_layers_ <= 0 THEN "SquashError"
    ELSE IF number_of_layers_ > n_layers THEN "SquashError"
    ELSE ""

\* marker and the two slices.
SplitMarker(layers, k) == Len(layers) - k
LayersToSquash(layers, k) == Suffix(layers, SplitMarker(layers, k))
LayersToMove(layers, k) == Prefix(layers, SplitMarker(layers, k))

\* The check after the split with the single-layer case folded into the
\* generic error.
CheckSquashRange_GenericError(to_squash) ==
    IF Len(to_squash) <= 1 THEN "SquashError" ELSE ""

\* The check after the split: the error it raises, "" when planning goes on.
CheckSquashRange(to_squash) ==
    IF Len(to_squash) < 1 THEN "SquashError"
    ELSE IF Len(to_squash) = 1 THEN "SquashUnnecessaryError"
    ELSE ""

NoPlan == [exc |-> "", site |-> "", number |-> -1, to_move |-> <<>>, to_squash |-> <<>>, split |-> FALSE]

\* Boundary resolution, validation, split and no-op check, in the code's order.
PlanSquash(from_given, layers) ==
    LET from == DefaultBoundary(from_given, layers) IN
    IF ~BoundaryResolves(from, layers)
    THEN [NoPlan EXCEPT !.exc = "SquashError", !.site = "boundary_not_found"]
    ELSE LET k == NumberOfLayers(from, layers) IN
         IF ValidateNumberOfLayers(k, Len(layers)) # ""
         THEN [NoPlan EXCEPT !.exc = ValidateNumberOfLayers(k, Len(layers)),
                             !.site = "validate_number_of_layers", !.number = k]
         ELSE LET sq == LayersToSquash(layers, k)
                  mv == LayersToMove(layers, k) IN
              [exc |-> CheckSquashRange(sq),
               site |-> IF CheckSquashRange(sq) = "" THEN "" ELSE "check_squash_range",
               number |-> k, to_move |-> mv, to_squash |-> sq, split |-> TRUE]

(***************************************************************************)
(* Layer paths of the two ranges.                                          *)
(***************************************************************************)
\* Archive input: the walk over old_image_layers from position i on (1-based).
RECURSIVE TarLayerPaths(_, _, _, _)
TarLayerPaths(layers, n_move, want_move, i) ==
    IF i > Len(layers) THEN <<>>
    ELSE LET rest == TarLayerPaths(layers, n_move, want_move, i + 1) IN
         IF IsMissing(layers[i]) THEN rest
         ELSE IF (n_move > i - 1) = want_move THEN <<layers[i]>> \o rest
              ELSE rest

\* Engine input: the walk over config.history, cur being current_manifest_layer.
\* The result is <<error, paths to move, paths to squash>>.
RECURSIVE DaemonLayerPaths(_, _, _, _, _, _)
DaemonLayerPaths(history, manifest, oci, n_move, i, cur) ==
    IF i > Len(history) THEN [exc |-> "", to_move |-> <<>>, to_squash |-> <<>>]
    ELSE IF history[i].empty_layer
         THEN DaemonLayerPaths(history, manifest, oci, n_move, i + 1, cur)
         ELSE IF ~HasDockerKeys(manifest)
              THEN [exc |-> "KeyError", to_move |-> <<>>, to_squash |-> <<>>]
              ELSE IF cur >= Len(manifest.layers)
                   THEN [exc |-> "IndexError", to_move |-> <<>>, to_squash |-> <<>>]
                   ELSE LET layer_id == IF oci THEN manifest.layers[cur + 1]
                                        ELSE FirstComponent(manifest.layers[cur + 1])
                            rest == DaemonLayerPaths(history, manifest, oci, n_move, i + 1, cur + 1)
                        IN IF rest.exc # "" THEN rest
                           ELSE IF n_move > i - 1
                                THEN [rest EXCEPT !.to_move = <<layer_id>> \o @]
                                ELSE [rest EXCEPT !.to_squash = <<layer_id>> \o @]

\* _read_layer_paths.
ReadLayerPaths(is_tar, oci, config, manifest, layers, to_move) ==
    IF is_tar
    THEN [exc |-> "",
          to_move |-> TarLayerPaths(layers, Len(to_move), TRUE, 1),
          to_squash |-> TarLayerPaths(layers, Len(to_move), FALSE, 1)]
    ELSE DaemonLayerPaths(config.history, manifest, oci, Len(to_move), 1, 0)

(***************************************************************************)
(* Identifier engine.                                                      *)
(***************************************************************************)
\* The tokens of a string, "/" between its components.
RECURSIVE Tokens(_)
Tokens(s) ==
    IF s = <<>> THEN <<>>
    ELSE IF Len(s) = 1 THEN s[1]
    ELSE s[1] \o <<"/">> \o Tokens(Tail(s))

\* _get_tar_layer_path: "" (here <<>>) stands for None.
GetTarLayerPath(oci, layer_id) ==
    IF IsMissing(layer_id) THEN <<>>
    ELSE IF oci
         THEN BlobPath(IF StartsWith(layer_id, "sha256:") THEN AfterColon(layer_id) ELSE layer_id)
         ELSE PathJoin(IF StartsWith(layer_id, "sha256:") THEN AfterColon(layer_id) ELSE layer_id,
                       Str("layer.tar"))

\* _extract_tar_name, relative to old_image_dir.
ExtractTarName(is_tar, oci, layer_id) ==
    IF is_tar THEN GetTarLayerPath(oci, layer_id)
    ELSE IF oci THEN layer_id
         ELSE PathJoin(layer_id, Str("layer.tar"))

\* What open(old_image_dir/f).read() yields for a layer tar of the archive.
FileContent(kind, m, f) == TarContent(CHOOSE j \in 1..m : LayerTarFile(kind, j) = f)

\* _compute_sha256 of a file of the archive.
ComputeSha256(kind, m, f) == Sha256Hex(FileContent(kind, m, f))

\* The tar files the given layer paths resolve to.
TarNames(is_tar, oci, paths) == [i \in 1..Len(paths) |-> ExtractTarName(is_tar, oci, paths[i])]
AllExist(files, names) == \A i \in 1..Len(names) : names[i] \in files

\* Content of squashed_dir/layer.tar: the merge of the squashed layers' tars.
RECURSIVE MergedTar(_, _, _)
MergedTar(kind, m, names) ==
    IF names = <<>> THEN <<"merged">>
    ELSE MergedTar(kind, m, SubSeq(names, 1, Len(names) - 1))
         \o FileContent(kind, m, Last(names))

\* _generate_diff_ids, every file read being present.
GenerateDiffIds(kind, m, move_names, squash_names, has_squash) ==
    [i \in 1..Len(move_names) |-> ComputeSha256(kind, m, move_names[i])]
    \o (IF has_squash THEN <<Sha256Hex(MergedTar(kind, m, squash_names))>> ELSE <<>>)

\* hashlib.sha256("sha256:%s sha256:%s" % (parent, diff)).hexdigest()
ChainDigest(parent_chain_id, diff_id) ==
    Sha256Hex(<<"sha256:">> \o Tokens(parent_chain_id) \o <<" sha256:">> \o Tokens(diff_id))

\* _generate_chain_id; has_parent is "parent_chain_id is not None".
RECURSIVE GenerateChainId(_, _, _, _)
GenerateChainId(chain_ids, diff_ids, parent_chain_id, has_parent) ==
    IF ~has_parent
    THEN IF diff_ids = <<>>
         THEN [exc |-> "IndexError", chain_ids |-> chain_ids]
         ELSE GenerateChainId(chain_ids, Tail(diff_ids), diff_ids[1], TRUE)
    ELSE LET appended == Append(chain_ids, parent_chain_id) IN
         IF Len(diff_ids) = 0
         THEN [exc |-> "", chain_ids |-> appended]
         ELSE GenerateChainId(appended, Tail(diff_ids),
                              ChainDigest(parent_chain_id, diff_ids[1]), TRUE)

GenerateChainIds(diff_ids) == GenerateChainId(<<>>, diff_ids, <<>>, FALSE)

(***************************************************************************)
(* Metadata rewriter.                                                      *)
(***************************************************************************)
\* Keys of a JSON object, in insertion order.
HasKey(keys, k) == \E i \in 1..Len(keys) : keys[i] = k
\* d.pop(k, None)
PopKey(keys, k) == SelectSeq(keys, LAMBDA x : x # k)
\* d[k] = v: a new key goes last, a present one keeps its place.
SetKey(keys, k) == IF HasKey(keys, k) THEN keys ELSE Append(keys, k)
\* Position of a key, 0 when absent.
KeyPos(keys, k) == IF HasKey(keys, k) THEN CHOOSE i \in 1..Len(keys) : keys[i] = k ELSE 0

NoConfig == [keys |-> <<>>, created |-> "", history |-> <<>>, diff_ids |-> <<>>, image |-> <<>>]

SourceConfigKeys == <<"architecture", "config", "container", "created", "history", "os", "rootfs">>

\* The config of the source image as loaded.
SourceConfig(hist, m) ==
    [keys |-> SourceConfigKeys, created |-> "t0",
     history |-> SourceHistory(hist), diff_ids |-> SourceDiffIds(m),
     image |-> Str("parent-image")]

\* The history entry appended for the squashed layer.
SquashHistoryEntry(has_squash, comment_, date_) ==
    [pos |-> -1, empty_layer |-> ~has_squash, origin |-> "squash",
     comment |-> comment_, created |-> date_]

\* _generate_image_metadata
GenerateImageMetadata(config, to_move, paths_to_move, paths_to_squash, diff_ids_, squash_id_, comment_, date_) ==
    [keys |-> PopKey(SetKey(config.keys, "created"), "container"),
     created |-> date_,
     history |-> Append(Prefix(config.history, Len(to_move)),
                        SquashHistoryEntry(paths_to_squash # <<>>, comment_, date_)),
     diff_ids |-> Prefix(config.diff_ids, Len(paths_to_move))
                  \o (IF paths_to_squash # <<>> THEN <<Sha256Prefix(Last(diff_ids_))>> ELSE <<>>),
     image |-> squash_id_]

RECURSIVE HistoryTokens(_)
HistoryTokens(history) ==
    IF history = <<>> THEN <<>>
    ELSE <<history[1].origin, ToString(history[1].pos),
           IF history[1].empty_layer THEN "empty" ELSE "layer",
           history[1].comment, history[1].created>>
         \o HistoryTokens(Tail(history))

RECURSIVE ListTokens(_)
ListTokens(strings) ==
    IF strings = <<>> THEN <<>>
    ELSE Tokens(strings[1]) \o <<",">> \o ListTokens(Tail(strings))

\* json.dumps of the new config: its keys in order, then the values that vary.
DumpConfig(metadata) ==
    <<"keys:">> \o metadata.keys
    \o <<"created:", metadata.created>>
    \o <<"history:">> \o HistoryTokens(metadata.history)
    \o <<"diff_ids:">> \o ListTokens(metadata.diff_ids)
    \o <<"Image:">> \o Tokens(metadata.image)

\* _write_image_metadata: the image id is the hash of the serialized config.
ImageId(metadata) == Sha256Hex(DumpConfig(metadata))

NoV1Metadata == [keys |-> <<>>, created |-> "", layer_id |-> <<>>, parent |-> <<>>, image |-> <<>>]

\* _generate_squashed_layer_path_id taking the first moved path as the parent.
V1Metadata_FirstMovedParent(config, chain_ids_, paths_to_move, paths_to_squash, squash_id_, date_) ==
    LET v1 == [keys |-> SetKey(SetKey(PopKey(PopKey(PopKey(PopKey(SetKey(config.keys, "created"),
                                   "history"), "rootfs"), "container"), "os"), "layer_id"), "os"),
               created |-> date_, layer_id |-> Sha256Prefix(Last(chain_ids_)),
               parent |-> <<>>, image |-> squash_id_]
    IN IF paths_to_move = <<>> THEN v1
       ELSE [v1 EXCEPT !.keys = SetKey(@, "parent"), !.parent = Sha256Prefix(paths_to_move[1])]

\* _generate_squashed_layer_path_id: the metadata it hashes.
V1Metadata(config, chain_ids_, paths_to_move, paths_to_squash, squash_id_, date_) ==
    LET has_os == HasKey(config.keys, "os")
        pruned == PopKey(PopKey(PopKey(SetKey(config.keys, "created"),
                                       "history"), "rootfs"), "container")
        with_id == SetKey(PopKey(pruned, "os"), "layer_id")
        with_os == IF has_os THEN SetKey(with_id, "os") ELSE with_id
    IN [keys |-> IF paths_to_move # <<>> THEN SetKey(with_os, "parent") ELSE with_os,
        created |-> date_,
        layer_id |-> Sha256Prefix(Last(chain_ids_)),
        parent |-> IF paths_to_move # <<>>
                   THEN Sha256Prefix(IF paths_to_squash # <<>> THEN Last(paths_to_move)
                                     ELSE paths_to_move[1])
                   ELSE <<>>,
        image |-> squash_id_]

\* json.dumps of the metadata and its hash.
DumpV1(v1) ==
    <<"keys:">> \o v1.keys \o <<"created:", v1.created>>
    \o <<"layer_id:">> \o Tokens(v1.layer_id) \o <<"parent:">> \o Tokens(v1.parent)
    \o <<"Image:">> \o Tokens(v1.image)

SquashedLayerPathId(v1) == Sha256Hex(DumpV1(v1))

\* The file _generate_last_layer_metadata opens, relative to old_image_dir;
\* the manifest has the "Config" key when this is evaluated for an OCI image.
OldLayerPath(oci, manifest, paths_to_squash) ==
    IF oci THEN manifest.config
    ELSE PathJoin(paths_to_squash[1], Str("json"))

\* Keys of the legacy per-layer JSON of the j-th layer of the source image.
LegacyJsonKeys(j) ==
    IF j > 1 THEN <<"id", "parent", "created", "container", "config", "os">>
    ELSE <<"id", "created", "container", "config", "os">>

\* Keys of the JSON object stored in a file of old_image_dir: the image
\* config, or the legacy JSON of a layer.
JsonFileKeys(manifest, m, f) ==
    IF f = manifest.config THEN SourceConfigKeys
    ELSE LegacyJsonKeys(CHOOSE j \in 1..m : PathJoin(LayerHex(j), Str("json")) = f)

NoLayerMetadata == [keys |-> <<>>, created |-> "", id |-> <<>>, parent |-> <<>>, image |-> <<>>]

\* _generate_last_layer_metadata, old_keys being the keys of the file it loads.
GenerateLastLayerMetadata(old_keys, layer_path_id_, paths_to_move, squash_id_, date_) ==
    LET dated == SetKey(old_keys, "created")
        parented == IF paths_to_move # <<>> THEN SetKey(dated, "parent")
                    ELSE PopKey(dated, "parent")
    IN [keys |-> PopKey(SetKey(parented, "id"), "container"),
        created |-> date_,
        id |-> layer_path_id_,
        parent |-> IF paths_to_move # <<>> THEN Last(paths_to_move) ELSE <<>>,
        image |-> squash_id_]

\* "%s.json" % image_id  and  "%s/layer.tar" % layer_path_id
WithSuffix(s, tok) == SubSeq(s, 1, Len(s) - 1) \o << Last(s) \o <<tok>> >>

NoNewManifest == [config |-> <<>>, repo_tags |-> <<>>, layers |-> <<>>]

\* _generate_manifest_metadata with "or" for "and" in the test of name and tag.
GenerateManifestMetadata_NameOrTag(image_id_, image_name_, image_tag_, old_manifest, paths_to_move, layer_path_id_) ==
    [config |-> WithSuffix(image_id_, ".json"),
     repo_tags |-> IF ~IsEmptyStr(image_name_) \/ ~IsEmptyStr(image_tag_)
                   THEN <<RepoTag(image_name_, image_tag_)>> ELSE <<>>,
     layers |-> Prefix(old_manifest.layers, Len(paths_to_move))
                \o (IF layer_path_id_ # <<>>
                    THEN <<PathJoin(layer_path_id_, Str("layer.tar"))>> ELSE <<>>)]

\* _generate_manifest_metadata; layer_path_id_ = <<>> stands for None, and an
\* empty repo_tags for a manifest without the "RepoTags" key.
GenerateManifestMetadata(image_id_, image_name_, image_tag_, old_manifest, paths_to_move, layer_path_id_) ==
    [config |-> WithSuffix(image_id_, ".json"),
     repo_tags |-> IF ~IsEmptyStr(image_name_) /\ ~IsEmptyStr(image_tag_)
                   THEN <<RepoTag(image_name_, image_tag_)>> ELSE <<>>,
     layers |-> Prefix(old_manifest.layers, Len(paths_to_move))
                \o (IF layer_path_id_ # <<>>
                    THEN <<PathJoin(layer_path_id_, Str("layer.tar"))>> ELSE <<>>)]

(***************************************************************************)
(* State of one run.                                                       *)
(***************************************************************************)
VARIABLES
    \* The source image and the arguments of Squash(...) that name what to squash.
    is_tar_input, kind, hist, manifest_count, from_layer, tag, comment, date,
    \* The arguments of Squash(...) that say how to run, and self.cleanup.
    development, output_path, load_image, cleanup_requested, docker_given, cleanup,
    \* Position in Squash.run / Squash.squash and the exception in flight.
    pc, exc, exc_site, propagated,
    \* The working directory tree.
    tmp_dir_exists, old_files, squashed_dir_exists, new_tree, config_file, cleanups,
    \* Fields of the V2Image object.
    oci_format, old_image_manifest, old_image_config,
    image_name, image_tag, old_image_layers,
    number_of_layers, layers_to_move, layers_to_squash, split_done,
    layer_paths_to_move, layer_paths_to_squash, squash_id,
    merge_input, hash_input, diff_ids, chain_ids,
    new_config, image_id, v1_metadata, layer_path_id, last_layer_metadata, new_manifest,
    \* Effects on the outside and the value Squash.run returns.
    exported, loaded, source_removed, returned,
    \* The number of this run on the source image and what the run before it produced.
    run, first

source == <<is_tar_input, kind, hist, manifest_count, from_layer, tag, comment, date>>
options == <<development, output_path, load_image, cleanup_requested, docker_given, cleanup>>
inputs == <<source, options>>
control == <<pc, exc, exc_site, propagated>>
tree == <<tmp_dir_exists, old_files, squashed_dir_exists, new_tree, config_file, cleanups>>
loaded_image == <<oci_format, old_image_manifest, old_image_config>>
planned == <<image_name, image_tag, old_image_layers, number_of_layers, layers_to_move,
             layers_to_squash, split_done, layer_paths_to_move, layer_paths_to_squash,
             squash_id>>
squashed == <<merge_input, hash_input, diff_ids, chain_ids, new_config, image_id,
              v1_metadata, layer_path_id, last_layer_metadata, new_manifest>>
outside == <<exported, loaded, source_removed, returned>>
runs == <<run, first>>
vars == <<inputs, control, tree, loaded_image, planned, squashed, outside, runs>>

\* Sequences of empty_layer flags, up to a length.
HistoriesUpTo(n) == UNION {[1..i -> BOOLEAN] : i \in 0..n}
Histories == HistoriesUpTo(MaxLayers)

\* Manifest layer counts for a history: at most MaxShortfall layers short.
ManifestCounts(h) == {c \in 0..NonEmptyCount(h) : NonEmptyCount(h) - c <= MaxShortfall}

\* Boundaries a caller may pass: none, a count, or an identifier.
Boundaries(k, h, c) ==
    {NoBoundary}
    \cup {NumBoundary(n) : n \in (-1)..(Len(h) + 1)}
    \cup {IdBoundary(Sha256Prefix(LayerHex(j))) : j \in 1..c}
    \cup {IdBoundary(MissingId(i - 1)) : i \in {x \in 1..Len(h) : h[x]}}
    \cup {IdBoundary(Sha256Prefix(Str("blobs"))) : x \in IF k = "docker_blobs" THEN {1} ELSE {}}
    \cup {IdBoundary(Str("no-such-layer"))}

\* The image argument: the path of an archive or the name of an engine image.
ImageArg(is_tar) == IF is_tar THEN Str("image.tar") ELSE << <<"src", ":", "v1">> >>

NoTag == <<>>
\* Values of the tag argument: none, a name, name:tag, an empty tag, an empty
\* name, a registry with a port, and the image argument itself.
Tags(is_tar) ==
    {NoTag, Str("repo"), << <<"repo", ":", "v2">> >>, << <<"repo", ":">> >>,
     << <<":", "v2">> >>, << <<"host", ":", "5000">>, <<"repo">> >>, ImageArg(is_tar)}

NoOutputs == [ran |-> FALSE, config |-> NoConfig, manifest |-> NoNewManifest,
              layer_path_id |-> <<>>, image_id |-> <<>>]

\* self.cleanup as Squash.__init__ leaves it.
InitCleanup(tag_, image, requested) == requested /\ ~(tag_ = image)

\* The state Squash.__init__ leaves, whatever the arguments.
AfterInit ==
    /\ cleanup = InitCleanup(tag, ImageArg(is_tar_input), cleanup_requested)
    /\ pc = "run" /\ exc = "" /\ exc_site = "" /\ propagated = ""
    /\ tmp_dir_exists = FALSE /\ old_files = {} /\ squashed_dir_exists = FALSE
    /\ new_tree = {} /\ config_file = <<>> /\ cleanups = 0
    /\ oci_format = FALSE /\ old_image_manifest = NoManifest /\ old_image_config = NoConfig
    /\ image_name = <<>> /\ image_tag = <<>>
    /\ old_image_layers = <<>> /\ number_of_layers = -1
    /\ layers_to_move = <<>> /\ layers_to_squash = <<>> /\ split_done = FALSE
    /\ layer_paths_to_move = <<>> /\ layer_paths_to_squash = <<>> /\ squash_id = <<>>
    /\ merge_input = <<>> /\ hash_input = <<>> /\ diff_ids = <<>> /\ chain_ids = <<>>
    /\ new_config = NoConfig /\ image_id = <<>> /\ v1_metadata = NoV1Metadata
    /\ layer_path_id = <<>> /\ last_layer_metadata = NoLayerMetadata
    /\ new_manifest = NoNewManifest
    /\ exported = FALSE /\ loaded = FALSE /\ source_removed = FALSE /\ returned = <<>>

\* Every source image and boundary within the bounds, the other arguments
\* of Squash(...) at their defaults.
Init ==
    /\ is_tar_input \in BOOLEAN
    /\ kind \in IF is_tar_input THEN TarKinds ELSE DaemonKinds
    /\ hist \in IF kind \in LoaderKinds THEN {<<>>} ELSE Histories
    /\ manifest_count \in ManifestCounts(hist)
    /\ from_layer \in Boundaries(kind, hist, manifest_count)
    /\ tag = NoTag /\ comment = "" /\ date = "t1"
    /\ development \in BOOLEAN
    /\ output_path \in BOOLEAN
    /\ load_image \in BOOLEAN
    /\ cleanup_requested = FALSE /\ docker_given = FALSE
    /\ run = 1 /\ first = NoOutputs
    /\ AfterInit

\* A well-formed image of either dialect, from either source, with a
\* history of at most MaxOptionLayers entries, and any boundary.
WellFormedSource ==
    /\ is_tar_input \in BOOLEAN
    /\ kind \in {"docker_dirs", "oci"}
    /\ hist \in HistoriesUpTo(MaxOptionLayers)
    /\ manifest_count = NonEmptyCount(hist)
    /\ from_layer \in Boundaries(kind, hist, manifest_count)

\* Every value of the other arguments of Squash(...), over well-formed images.
InitOptions ==
    /\ WellFormedSource
    /\ tag \in Tags(is_tar_input) /\ comment = "" /\ date = "t1"
    /\ development \in BOOLEAN
    /\ output_path \in BOOLEAN
    /\ load_image \in BOOLEAN
    /\ cleanup_requested \in BOOLEAN
    /\ docker_given \in IF is_tar_input THEN BOOLEAN ELSE {FALSE}
    /\ run = 1 /\ first = NoOutputs
    /\ AfterInit

\* A first run with the default options, to be followed by a second one.
InitTwice ==
    /\ WellFormedSource
    /\ tag \in {NoTag, << <<"repo", ":", "v2">> >>}
    /\ comment \in {"", "squashed"} /\ date = "t1"
    /\ development = FALSE /\ output_path = FALSE /\ load_image = TRUE
    /\ cleanup_requested = FALSE /\ docker_given = FALSE
    /\ run = 1 /\ first = NoOutputs
    /\ AfterInit

(***************************************************************************)
(* Format detector (archive input).                                        *)
(***************************************************************************)
\* _detect_image_format: "oci", "docker" or "" when it raises.
DetectImageFormat(files) ==
    IF Str("index.json") \in files THEN "oci"
    ELSE IF Str("manifest.json") \in files THEN "docker"
    ELSE ""

NotLoaded(exc_, site) == [exc |-> exc_, site |-> site, manifest |-> NoManifest]
Loaded(manifest) == [exc |-> "", site |-> "", manifest |-> manifest]

\* _load_docker_tar_metadata: the error it raises, or the manifest it loads
\* together with the config the manifest names.
LoadDockerTarMetadata(files, k, c) ==
    IF DockerManifests(k, c) = <<>>
    THEN NotLoaded("SquashError", "_load_docker_tar_metadata")
    ELSE IF DockerManifests(k, c)[1].config \notin files
         THEN NotLoaded("FileNotFoundError", "_load_docker_tar_metadata")
         ELSE Loaded(DockerManifests(k, c)[1])

\* _load_oci_tar_metadata.
LoadOciTarMetadata(files, k, c) ==
    IF IndexManifests(k) = <<>> THEN NotLoaded("SquashError", "_load_oci_tar_metadata")
    ELSE IF ManifestBlob \notin files
    THEN IF Str("manifest.json") \in files THEN LoadDockerTarMetadata(files, k, c)
         ELSE NotLoaded("SquashError", "_load_oci_tar_metadata")
    ELSE LET blob == ManifestBlobContent(k, c)
             nested == blob.media = "index"
             manifest == IF nested THEN OciManifest(c) ELSE blob.manifest
         IN IF nested /\ blob.manifests = <<>>
            THEN NotLoaded("SquashError", "_load_oci_tar_metadata")
            ELSE IF nested /\ NestedManifestBlob \notin files
            THEN NotLoaded("SquashError", "_load_oci_tar_metadata")
            ELSE IF manifest.config = <<>>
            THEN NotLoaded("SquashError", "_load_oci_tar_metadata")
            ELSE IF ConfigBlob \notin files
            THEN NotLoaded("SquashError", "_load_oci_tar_metadata")
            ELSE Loaded(manifest)

\* _load_tar_metadata.
LoadTarMetadata(format, files, k, c) ==
    IF format = "oci" THEN LoadOciTarMetadata(files, k, c)
    ELSE LoadDockerTarMetadata(files, k, c)

\* Squash.run up to and including the construction of the image object.
Construct ==
    /\ pc = "run"
    /\ IF ~(output_path \/ load_image)
       THEN /\ pc' = "done"
            /\ UNCHANGED <<exc, exc_site, propagated, tree, loaded_image>>
       ELSE IF ~is_tar_input
       THEN /\ pc' = "constructed"
            /\ UNCHANGED <<exc, exc_site, propagated, tree, loaded_image>>
       ELSE LET files == ArchiveFiles(kind, manifest_count)
                format == DetectImageFormat(files)
                load == LoadTarMetadata(format, files, kind, manifest_count)
                site == IF kind = "corrupt" THEN "_extract_tar_image"
                        ELSE IF format = "" THEN "_detect_image_format"
                        ELSE load.site
                raised == IF site = load.site THEN load.exc ELSE "SquashError"
            IN /\ tmp_dir_exists' = TRUE
               /\ old_files' = IF kind = "corrupt" THEN {} ELSE files
               /\ UNCHANGED <<squashed_dir_exists, new_tree, config_file, cleanups>>
               /\ IF site # ""
                  THEN /\ exc' = raised /\ exc_site' = site
                       /\ propagated' = raised
                       /\ pc' = "failed"
                       /\ oci_format' = (format = "oci")
                       /\ UNCHANGED <<old_image_manifest, old_image_config>>
                  ELSE /\ UNCHANGED <<exc, exc_site, propagated>>
                       /\ pc' = "constructed"
                       /\ oci_format' = (format = "oci")
                       /\ old_image_manifest' = load.manifest
                       /\ old_image_config' = SourceConfig(hist, manifest_count)
    /\ UNCHANGED <<inputs, planned, squashed, outside, runs>>

(***************************************************************************)
(* _before_squashing.                                                      *)
(***************************************************************************)
\* The normalized layer list the engine reports for the image: a placeholder
\* per empty history entry, the next manifest layer per non-empty one.
DaemonLayerList(h, c) ==
    HistoryWalk(SourceHistory(h), [j \in 1..c |-> Sha256Prefix(LayerHex(j))], 1, 0)

\* The files of old_image_dir once the engine's export has been unpacked.
DaemonSavedFiles(k, c) == ArchiveFiles(k, c)

\* _get_manifest: oci_format as it leaves it.
GetManifestOci(files) == Str("index.json") \in files

\* For engine input the base class plans first (boundary, validation, split,
\* no-op check) and only then creates the working tree and unpacks the export.
BeforeSquashing ==
    /\ pc = "constructed"
    /\ LET layers == IF is_tar_input
                     THEN BuildLayerListFromTar(oci_format, old_image_manifest, old_image_config)
                     ELSE DaemonLayerList(hist, manifest_count)
           plan == PlanSquash(from_layer, layers)
           files == IF is_tar_input THEN old_files
                    ELSE DaemonSavedFiles(kind, manifest_count)
           oci == IF is_tar_input THEN oci_format ELSE GetManifestOci(files)
           manifest == IF is_tar_input THEN old_image_manifest
                       ELSE DockerManifest(kind, manifest_count)
           config == IF is_tar_input THEN old_image_config
                     ELSE SourceConfig(hist, manifest_count)
           paths == ReadLayerPaths(is_tar_input, oci, config, manifest, layers, plan.to_move)
           named == IF IsEmptyStr(tag) THEN [name |-> image_name, tag |-> image_tag]
                    ELSE ParseImageName(tag)
       IN /\ image_name' = named.name
          /\ image_tag' = named.tag
          /\ old_image_layers' = layers
          /\ number_of_layers' = plan.number
          /\ layers_to_move' = plan.to_move
          /\ layers_to_squash' = plan.to_squash
          /\ split_done' = plan.split
          /\ IF plan.exc # ""
             THEN /\ exc' = plan.exc /\ exc_site' = plan.site /\ pc' = "except"
                  /\ UNCHANGED <<tree, loaded_image, layer_paths_to_move,
                                 layer_paths_to_squash, squash_id>>
             ELSE /\ tmp_dir_exists' = TRUE
                  /\ old_files' = files
                  /\ UNCHANGED <<squashed_dir_exists, new_tree, config_file, cleanups>>
                  /\ oci_format' = oci
                  /\ old_image_manifest' = manifest
                  /\ old_image_config' = config
                  /\ IF paths.exc # ""
                     THEN /\ exc' = paths.exc /\ exc_site' = "_read_layer_paths"
                          /\ pc' = "except"
                          /\ UNCHANGED <<layer_paths_to_move, layer_paths_to_squash, squash_id>>
                     ELSE /\ UNCHANGED <<exc, exc_site>>
                          /\ pc' = "prepared"
                          /\ layer_paths_to_move' = paths.to_move
                          /\ layer_paths_to_squash' = paths.to_squash
                          /\ squash_id' = IF paths.to_move # <<>> THEN Last(paths.to_move)
                                          ELSE squash_id
    /\ UNCHANGED <<inputs, propagated, squashed, outside, runs>>

(***************************************************************************)
(* _squash.                                                                *)
(***************************************************************************)
NotMissing(layer_id) == ~IsMissing(layer_id)
\* real_layers_to_squash / real_layers_to_move
RealLayers(is_tar, paths) == IF is_tar THEN SelectSeq(paths, NotMissing) ELSE paths

\* The first statement of _squash that raises, 0 when none does:
\* 1 merging the layers, 2 hashing the moved layers, 3 folding the chain,
\* 4 reading the manifest's "Config", 5 opening the old layer's json,
\* 6 reading the manifest's "Layers", 7 taking the last layer of the new manifest.
SquashFailure(is_tar, oci, files, manifest, paths_to_move, paths_to_squash) ==
    LET has_squash == paths_to_squash # <<>>
        squash_names == TarNames(is_tar, oci, RealLayers(is_tar, paths_to_squash))
        move_names == TarNames(is_tar, oci, paths_to_move)
    IN IF has_squash /\ squash_names # <<>> /\ ~AllExist(files, squash_names) THEN 1
       ELSE IF ~AllExist(files, move_names) THEN 2
       ELSE IF paths_to_move = <<>> /\ ~has_squash THEN 3
       ELSE IF has_squash /\ oci /\ ~HasDockerKeys(manifest) THEN 4
       ELSE IF has_squash /\ OldLayerPath(oci, manifest, paths_to_squash) \notin files THEN 5
       ELSE IF ~HasDockerKeys(manifest) THEN 6
       ELSE IF Prefix(manifest.layers, Len(paths_to_move)) = <<>> /\ ~has_squash THEN 7
       ELSE 0

FailureExc(stage) ==
    CASE stage \in {1, 2, 5} -> "FileNotFoundError"
      [] stage \in {3, 7} -> "IndexError"
      [] stage \in {4, 6} -> "KeyError"
      [] OTHER -> ""

FailureSite(stage) ==
    CASE stage = 1 -> "_squash_layers"
      [] stage = 2 -> "_generate_diff_ids"
      [] stage = 3 -> "_generate_chain_id"
      [] stage = 4 -> "_squash"
      [] stage = 5 -> "_generate_last_layer_metadata"
      [] stage = 6 -> "_generate_manifest_metadata"
      [] stage = 7 -> "_squash"
      [] OTHER -> ""

\* Whether the statements before failure point `point` have run.
Passed(stage, point) == stage = 0 \/ stage > point

\* The creation date read from the clock again whenever it is written.
CreatedStamp_ClockAtWrite == date \o "+" \o ToString(run)

\* self.date, the creation date written into every rewritten output.
CreatedStamp == date

DoSquash ==
    /\ pc = "prepared"
    /\ LET has_squash == layer_paths_to_squash # <<>>
           real_squash == RealLayers(is_tar_input, layer_paths_to_squash)
           squash_names == TarNames(is_tar_input, oci_format, real_squash)
           move_names == TarNames(is_tar_input, oci_format, layer_paths_to_move)
           stage == SquashFailure(is_tar_input, oci_format, old_files, old_image_manifest,
                                  layer_paths_to_move, layer_paths_to_squash)
           dids == GenerateDiffIds(kind, manifest_count, move_names, squash_names, has_squash)
           chain == GenerateChainIds(dids)
           metadata == GenerateImageMetadata(old_image_config, layers_to_move,
                                             layer_paths_to_move, layer_paths_to_squash,
                                             dids, squash_id, comment, CreatedStamp)
           v1 == V1Metadata(old_image_config, chain.chain_ids, layer_paths_to_move,
                            layer_paths_to_squash, squash_id, CreatedStamp)
           path_id == IF has_squash THEN SquashedLayerPathId(v1) ELSE <<>>
           old_keys == JsonFileKeys(old_image_manifest, manifest_count,
                                    OldLayerPath(oci_format, old_image_manifest,
                                                 layer_paths_to_squash))
           manifest == GenerateManifestMetadata(ImageId(metadata), image_name, image_tag,
                                                old_image_manifest, layer_paths_to_move,
                                                path_id)
       IN /\ merge_input' = IF has_squash THEN real_squash ELSE <<>>
          /\ hash_input' = IF Passed(stage, 1) THEN layer_paths_to_move ELSE <<>>
          /\ diff_ids' = IF Passed(stage, 2) THEN dids ELSE <<>>
          /\ chain_ids' = IF Passed(stage, 3) THEN chain.chain_ids ELSE <<>>
          /\ new_config' = IF Passed(stage, 3) THEN metadata ELSE NoConfig
          /\ image_id' = IF Passed(stage, 3) THEN ImageId(metadata) ELSE <<>>
          /\ config_file' = IF Passed(stage, 3) THEN WithSuffix(ImageId(metadata), ".json")
                            ELSE <<>>
          /\ v1_metadata' = IF Passed(stage, 3) /\ has_squash THEN v1 ELSE NoV1Metadata
          /\ layer_path_id' = IF Passed(stage, 3) THEN path_id ELSE <<>>
          /\ last_layer_metadata' =
                IF Passed(stage, 5) /\ has_squash
                THEN GenerateLastLayerMetadata(old_keys, path_id, layer_paths_to_move,
                                               squash_id, CreatedStamp)
                ELSE NoLayerMetadata
          /\ new_manifest' = IF Passed(stage, 6) THEN manifest ELSE NoNewManifest
          /\ squashed_dir_exists' = (has_squash /\ ~Passed(stage, 5))
          /\ new_tree' = (IF Passed(stage, 3) THEN {"config"} ELSE {})
                         \cup (IF has_squash /\ Passed(stage, 5) THEN {"squashed_layer"} ELSE {})
                         \cup (IF Passed(stage, 6) THEN {"manifest"} ELSE {})
                         \cup (IF stage = 0 THEN {"moved_layers", "repositories"} ELSE {})
          \* metadata is a shallow copy: its rootfs and config objects are the
          \* source config's own, so these two assignments reach the source.
          /\ old_image_config' = IF Passed(stage, 3)
                                 THEN [old_image_config EXCEPT !.diff_ids = metadata.diff_ids,
                                                               !.image = metadata.image]
                                 ELSE old_image_config
          /\ exc' = FailureExc(stage)
          /\ exc_site' = FailureSite(stage)
          /\ pc' = IF stage = 0 THEN "squashed" ELSE "except"
    /\ UNCHANGED <<inputs, propagated, tmp_dir_exists, old_files, cleanups, oci_format,
                   old_image_manifest, planned, outside, runs>>

(***************************************************************************)
(* The rest of Squash.squash and the handler of Squash.run.                *)
(***************************************************************************)
\* image.export_tar_archive(output_path), which may fail with an I/O error.
ExportTarArchive ==
    /\ pc = "squashed"
    /\ IF output_path
       THEN \E ok \in BOOLEAN :
               IF ok THEN /\ exported' = TRUE /\ pc' = "exported"
                          /\ UNCHANGED <<exc, exc_site>>
               ELSE /\ exc' = "IOError" /\ exc_site' = "export_tar_archive"
                    /\ pc' = "except" /\ UNCHANGED exported
       ELSE /\ pc' = "exported" /\ UNCHANGED <<exc, exc_site, exported>>
    /\ UNCHANGED <<inputs, propagated, tree, loaded_image, planned, squashed, loaded,
                   source_removed, returned, runs>>

\* image.load_squashed_image(), which may fail with an engine error.
LoadSquashedImage ==
    /\ pc = "exported"
    /\ IF load_image
       THEN \E ok \in BOOLEAN :
               IF ok THEN /\ loaded' = TRUE /\ pc' = "loaded"
                          /\ UNCHANGED <<exc, exc_site>>
               ELSE /\ exc' = "APIError" /\ exc_site' = "load_squashed_image"
                    /\ pc' = "except" /\ UNCHANGED loaded
       ELSE /\ pc' = "loaded" /\ UNCHANGED <<exc, exc_site, loaded>>
    /\ UNCHANGED <<inputs, propagated, tree, loaded_image, planned, squashed, exported,
                   source_removed, returned, runs>>

\* image.cleanup(): the working directory tree is removed.
ImageCleanup ==
    /\ tmp_dir_exists' = FALSE
    /\ old_files' = {}
    /\ squashed_dir_exists' = FALSE
    /\ new_tree' = {}
    /\ config_file' = <<>>
    /\ cleanups' = cleanups + 1

\* self.docker of the Squash object: None for archive input unless the
\* caller passed a client.
HasDockerClient(is_tar, given) == given \/ ~is_tar

\* Squash._cleanup: "AttributeError" when self.docker is None; otherwise the
\* image is removed when the engine answers both calls, and an APIError of
\* either call is logged and swallowed.  The result is <<exception, removed>>.
SourceCleanup(has_client, inspect_ok, remove_ok) ==
    IF ~has_client THEN <<"AttributeError", FALSE>>
    ELSE <<"", inspect_ok /\ remove_ok>>

\* The end of Squash.squash: "if not self.development: image.cleanup()",
\* "if self.cleanup: self._cleanup()" and the return of the new image id.
FinishSquash ==
    /\ pc = "loaded"
    /\ IF ~development THEN ImageCleanup ELSE UNCHANGED tree
    /\ IF cleanup
       THEN \E inspect_ok, remove_ok \in BOOLEAN :
               LET result == SourceCleanup(HasDockerClient(is_tar_input, docker_given),
                                           inspect_ok, remove_ok)
               IN IF result[1] # ""
                  THEN /\ exc' = result[1] /\ exc_site' = "_cleanup" /\ pc' = "except"
                       /\ UNCHANGED <<source_removed, returned>>
                  ELSE /\ source_removed' = result[2]
                       /\ returned' = image_id
                       /\ pc' = "done"
                       /\ UNCHANGED <<exc, exc_site>>
       ELSE /\ returned' = image_id
            /\ pc' = "done"
            /\ UNCHANGED <<exc, exc_site, source_removed>>
    /\ UNCHANGED <<inputs, propagated, loaded_image, planned, squashed, exported, loaded, runs>>

\* The except clause of Squash.run.
HandleException ==
    /\ pc = "except"
    /\ IF ~development THEN ImageCleanup ELSE UNCHANGED tree
    /\ propagated' = exc
    /\ pc' = "failed"
    /\ UNCHANGED <<inputs, exc, exc_site, loaded_image, planned, squashed, outside, runs>>

Next ==
    \/ Construct
    \/ BeforeSquashing
    \/ DoSquash
    \/ ExportTarArchive
    \/ LoadSquashedImage
    \/ FinishSquash
    \/ HandleException

Spec == Init /\ [][Next]_vars

SpecOptions == InitOptions /\ [][Next]_vars

(***************************************************************************)
(* Vocabulary of the properties.                                           *)
(***************************************************************************)
\* A well-formed archive of one of the two dialects whose manifest lists one
\* layer per non-empty history entry.
ValidImage == kind \in {"docker_dirs", "oci"} /\ NonEmptyCount(hist) = manifest_count

\* _before_squashing has run (to its end or to an exception).
ConstructSites == {"_extract_tar_image", "_detect_image_format", "_load_oci_tar_metadata",
                   "_load_docker_tar_metadata"}
Planned == pc \notin {"run", "constructed"} /\ exc_site \notin ConstructSites
           /\ (output_path \/ load_image)

\* _squash has run (to its end or to an exception).
SquashSites == {"_squash_layers", "_generate_diff_ids", "_generate_chain_id", "_squash",
                "_generate_last_layer_metadata", "_generate_manifest_metadata"}
PlanSites == {"boundary_not_found", "validate_number_of_layers", "check_squash_range",
              "_read_layer_paths"}
SquashRan == Planned /\ pc # "prepared" /\ exc_site \notin PlanSites
SquashSucceeded == SquashRan /\ exc_site \notin SquashSites

NLayers == Len(old_image_layers)

(***************************************************************************)
(* Two runs on the same source image.                                      *)
(***************************************************************************)
\* What a run produced, kept for comparison with the next run.
Outputs ==
    [ran |-> SquashRan,
     config |-> new_config, manifest |-> new_manifest,
     layer_path_id |-> layer_path_id, image_id |-> image_id]

\* A second Squash(...).run() on the same source image with the same
\* boundary, tag, comment and creation date, and any other options.
RunAgain ==
    /\ pc \in {"done", "failed"}
    /\ run = 1
    /\ run' = 2
    /\ first' = Outputs
    /\ UNCHANGED source
    /\ development' \in BOOLEAN
    /\ output_path' \in BOOLEAN
    /\ load_image' \in BOOLEAN
    /\ cleanup_requested' \in BOOLEAN
    /\ docker_given' \in IF is_tar_input THEN BOOLEAN ELSE {FALSE}
    /\ cleanup' = InitCleanup(tag, ImageArg(is_tar_input), cleanup_requested')
    /\ pc' = "run" /\ exc' = "" /\ exc_site' = "" /\ propagated' = ""
    /\ tmp_dir_exists' = FALSE /\ old_files' = {} /\ squashed_dir_exists' = FALSE
    /\ new_tree' = {} /\ config_file' = <<>> /\ cleanups' = 0
    /\ oci_format' = FALSE /\ old_image_manifest' = NoManifest
    /\ old_image_config' = NoConfig
    /\ image_name' = <<>> /\ image_tag' = <<>>
    /\ old_image_layers' = <<>> /\ number_of_layers' = -1
    /\ layers_to_move' = <<>> /\ layers_to_squash' = <<>> /\ split_done' = FALSE
    /\ layer_paths_to_move' = <<>> /\ layer_paths_to_squash' = <<>> /\ squash_id' = <<>>
    /\ merge_input' = <<>> /\ hash_input' = <<>> /\ diff_ids' = <<>> /\ chain_ids' = <<>>
    /\ new_config' = NoConfig /\ image_id' = <<>> /\ v1_metadata' = NoV1Metadata
    /\ layer_path_id' = <<>> /\ last_layer_metadata' = NoLayerMetadata
    /\ new_manifest' = NoNewManifest
    /\ exported' = FALSE /\ loaded' = FALSE /\ source_removed' = FALSE
    /\ returned' = <<>>

NextTwice ==
    \/ Next
    \/ RunAgain

SpecTwice == InitTwice /\ [][NextTwice]_vars

(***************************************************************************)
(* C1: for a valid image whose normalized layer list has N >= 2 entries    *)
(* and a squash count 1 < k <= N, the squash completes and the output has  *)
(* N - k + 1 layers: the N - k moved ones, then the squashed one, and the  *)
(* output history has N - k + 1 entries.                                   *)
(***************************************************************************)
C1_SquashYieldsNMinusKPlusOne ==
    (ValidImage /\ SquashRan /\ NLayers >= 2
        /\ 1 < number_of_layers /\ number_of_layers <= NLayers)
    => /\ SquashSucceeded
       /\ Len(new_config.history) = NLayers - number_of_layers + 1
       /\ Len(layers_to_move) = NLayers - number_of_layers
       /\ Last(new_config.history).origin = "squash"

(***************************************************************************)
(* C2: whenever the planned squash range has exactly one layer (count 1,   *)
(* an identifier whose index is the second from the top, or no boundary on *)
(* a one-layer image), planning raises SquashUnnecessaryError, never the   *)
(* generic SquashError, and nothing of the squashed image is produced.     *)
(***************************************************************************)
SingleLayerBoundary ==
    \/ from_layer.kind = "num" /\ from_layer.num = 1 /\ NLayers >= 1
    \/ from_layer.kind = "id" /\ InList(old_image_layers, from_layer.id)
          /\ IndexOf(old_image_layers, from_layer.id) = NLayers - 2
    \/ from_layer.kind = "none" /\ NLayers = 1

NothingSquashed ==
    /\ merge_input = <<>> /\ diff_ids = <<>> /\ chain_ids = <<>>
    /\ new_config = NoConfig /\ new_manifest = NoNewManifest
    /\ image_id = <<>> /\ layer_path_id = <<>>
    /\ ~squashed_dir_exists /\ new_tree = {}

C2_SingleLayerIsNoOp ==
    /\ (Planned /\ SingleLayerBoundary) => (split_done /\ Len(layers_to_squash) = 1)
    /\ (Planned /\ split_done /\ Len(layers_to_squash) = 1)
       => /\ exc = "SquashUnnecessaryError"
          /\ exc_site = "check_squash_range"
          /\ pc \in {"except", "failed"}
          /\ pc = "failed" => propagated = "SquashUnnecessaryError"
          /\ NothingSquashed

C2_Witness ==
    /\ pc = "failed" /\ exc = "SquashUnnecessaryError"
    /\ from_layer.kind = "id" /\ NLayers >= 3 /\ Len(layers_to_squash) = 1

(***************************************************************************)
(* C3: a squash count k <= 0 or k > N is rejected with SquashError by the  *)
(* count validation, before the list is split; 1 <= k <= N passes it.      *)
(***************************************************************************)
BoundaryResolved == Planned /\ exc_site # "boundary_not_found"

C3_CountValidation ==
    BoundaryResolved
    => /\ from_layer.kind = "num" => number_of_layers = from_layer.num
       /\ from_layer.kind = "none" => number_of_layers = NLayers
       /\ (number_of_layers <= 0 \/ number_of_layers > NLayers)
          => /\ exc = "SquashError" /\ exc_site = "validate_number_of_layers"
             /\ ~split_done /\ layers_to_move = <<>> /\ layers_to_squash = <<>>
       /\ (1 <= number_of_layers /\ number_of_layers <= NLayers)
          => /\ exc_site # "validate_number_of_layers"
             /\ split_done

C3_Witness ==
    /\ pc = "failed" /\ exc_site = "validate_number_of_layers"
    /\ from_layer.kind = "num" /\ number_of_layers > NLayers /\ NLayers >= 2

(***************************************************************************)
(* C4: for every diff-ID sequence d a squash run produces, the empty one   *)
(* included, chain-ID derivation ends without error with a list c as long  *)
(* as d, c[0] = d[0] and c[i] = SHA-256("sha256:" + c[i-1] + " sha256:" +  *)
(* d[i]).                                                                  *)
(***************************************************************************)
\* The chain recomputed from the diff IDs, position by position.
RECURSIVE ReferenceChainAt(_, _)
ReferenceChainAt(d, i) ==
    IF i = 1 THEN d[1]
    ELSE Sha256Hex(<<"sha256:">> \o Tokens(ReferenceChainAt(d, i - 1))
                   \o <<" sha256:">> \o Tokens(d[i]))
ReferenceChain(d) == [i \in 1..Len(d) |-> ReferenceChainAt(d, i)]

\* _generate_diff_ids returned, so _generate_chain_ids was called.
DiffIdsProduced == SquashRan /\ exc_site \notin {"_squash_layers", "_generate_diff_ids"}

C4_ChainRoundTrip ==
    DiffIdsProduced
    => /\ exc_site # "_generate_chain_id"
       /\ Len(chain_ids) = Len(diff_ids)
       /\ chain_ids = ReferenceChain(diff_ids)

(***************************************************************************)
(* C5: without tmp_dir, every error raised after the working directory was *)
(* created reaches the caller unchanged and with the working directory     *)
(* removed; with tmp_dir the directory is kept.                            *)
(***************************************************************************)
\* The working directory had been created when the error was raised.
CreatedBeforeError ==
    is_tar_input \/ exc_site \notin {"boundary_not_found", "validate_number_of_layers",
                                     "check_squash_range"}

C5_FailureRemovesWorkingDirectory ==
    (pc = "failed" /\ CreatedBeforeError)
    => /\ propagated = exc
       /\ ~development => ~tmp_dir_exists
       /\ development => tmp_dir_exists

(***************************************************************************)
(* C6: when a validation error (invalid count, unresolved identifier,      *)
(* count out of range) is raised, no directory has been created, no        *)
(* archive extracted and nothing written, for archive and engine input.    *)
(***************************************************************************)
ValidationError ==
    exc = "SquashError" /\ exc_site \in {"boundary_not_found", "validate_number_of_layers"}

C6_ValidationBeforeMutation ==
    (pc = "except" /\ ValidationError)
    => /\ ~tmp_dir_exists
       /\ old_files = {}
       /\ ~squashed_dir_exists
       /\ new_tree = {}

(***************************************************************************)
(* C7: an empty history entry in the move range is in the output history   *)
(* at its position with its flag; an empty entry in the squash range adds  *)
(* no layer to the merge input and no diff ID to the hash input.           *)
(***************************************************************************)
\* The empty history entry at 0-based position p is in the move range.
EmptyInMoveRange(p) == hist[p + 1] /\ InList(layers_to_move, MissingId(p))

RealCount(layers) == Len(SelectSeq(layers, NotMissing))

C7_EmptyLayersKeptOrSkipped ==
    SquashRan
    => /\ SquashSucceeded
          => \A p \in 0..(Len(hist) - 1) :
                EmptyInMoveRange(p)
                => /\ Len(new_config.history) > p
                   /\ new_config.history[p + 1] = SourceHistory(hist)[p + 1]
       /\ \A i \in 1..Len(merge_input) : NotMissing(merge_input[i])
       /\ \A i \in 1..Len(hash_input) : NotMissing(hash_input[i])
       /\ Len(merge_input) = RealCount(layers_to_squash)
       /\ DiffIdsProduced => Len(hash_input) = RealCount(layers_to_move)

(***************************************************************************)
(* C8: after a successful squash the new manifest lists the source         *)
(* references of the moved non-empty layers, in order, then the squashed   *)
(* layer if the squash range had content; the new history is the source    *)
(* entries of the moved layers, in order, then one entry for the squash.   *)
(***************************************************************************)
\* The history positions (0-based) that gave the normalized list an element.
RECURSIVE KeptWalk(_, _, _, _)
KeptWalk(h, n_ids, i, idx) ==
    IF i > Len(h) THEN <<>>
    ELSE IF h[i] THEN <<i - 1>> \o KeptWalk(h, n_ids, i + 1, idx)
         ELSE IF idx < n_ids THEN <<i - 1>> \o KeptWalk(h, n_ids, i + 1, idx + 1)
              ELSE KeptWalk(h, n_ids, i + 1, idx)

KeptPositions == KeptWalk(hist, RealCount(old_image_layers), 1, 0)

\* The source history entries of the layers in the move range.
MovedHistory == [i \in 1..Len(layers_to_move) |-> SourceHistory(hist)[KeptPositions[i] + 1]]

C8_ManifestAndHistoryFrame ==
    SquashSucceeded
    => /\ new_manifest.layers =
            Prefix(old_image_manifest.layers, RealCount(layers_to_move))
            \o (IF RealCount(layers_to_squash) > 0
                THEN <<PathJoin(layer_path_id, Str("layer.tar"))>> ELSE <<>>)
       /\ Len(new_config.history) = Len(layers_to_move) + 1
       /\ Prefix(new_config.history, Len(layers_to_move)) = MovedHistory
       /\ Last(new_config.history).origin = "squash"

(***************************************************************************)
(* C9: an identifier found in the normalized list at index j resolves to   *)
(* the count N - j - 1, the identified layer ends the move range and the   *)
(* layers above it are the squash range; an identifier not in the list     *)
(* fails as not found with no split; the topmost layer's identifier is a   *)
(* validation error, the second-from-top layer's the no-op.                *)
(***************************************************************************)
C9_IdentifierBoundary ==
    (Planned /\ from_layer.kind = "id")
    => IF InList(old_image_layers, from_layer.id)
       THEN LET j == IndexOf(old_image_layers, from_layer.id) IN
            /\ number_of_layers = NLayers - j - 1
            /\ j = NLayers - 1
               => exc = "SquashError" /\ exc_site = "validate_number_of_layers" /\ ~split_done
            /\ j = NLayers - 2
               => exc = "SquashUnnecessaryError" /\ exc_site = "check_squash_range"
            /\ j < NLayers - 1
               => /\ split_done
                  /\ Len(layers_to_move) = j + 1
                  /\ Last(layers_to_move) = from_layer.id
                  /\ layers_to_move \o layers_to_squash = old_image_layers
            /\ j < NLayers - 2 => exc_site \notin {"boundary_not_found",
                                     "validate_number_of_layers", "check_squash_range"}
       ELSE /\ exc = "SquashError" /\ exc_site = "boundary_not_found"
            /\ ~split_done /\ layers_to_move = <<>> /\ layers_to_squash = <<>>
            /\ pc \in {"except", "failed"}

C9_Witness ==
    /\ pc = "prepared" /\ from_layer.kind = "id" /\ is_tar_input
    /\ IsMissing(from_layer.id)
    /\ Len(layers_to_move) = 2 /\ Len(layers_to_squash) = 3

(***************************************************************************)
(* C10: when the manifest lists fewer layers than the history has          *)
(* non-empty entries, normalization and the split into move and squash     *)
(* paths do not abort, for archive and engine input, and the layers that   *)
(* remain keep their order.                                                *)
(***************************************************************************)
Shortfall == NonEmptyCount(hist) > manifest_count

C10_ShortfallTolerated ==
    (Planned /\ Shortfall /\ exc_site \notin {"boundary_not_found",
                               "validate_number_of_layers", "check_squash_range"})
    => /\ exc_site # "_read_layer_paths"
       /\ Len(layer_paths_to_move) + Len(layer_paths_to_squash) = RealCount(old_image_layers)
       /\ is_tar_input => layer_paths_to_move \o layer_paths_to_squash
                             = SelectSeq(old_image_layers, NotMissing)

NameAndTagKnown == ~IsEmptyStr(image_name) /\ ~IsEmptyStr(image_tag)

ManifestWritten == new_manifest # NoNewManifest

C12_RepoTagsAndConfigName ==
    ManifestWritten
    => /\ (new_manifest.repo_tags # <<>>) <=> NameAndTagKnown
       /\ NameAndTagKnown
          => /\ new_manifest.repo_tags = <<RepoTag(image_name, image_tag)>>
             /\ ParseImageName(new_manifest.repo_tags[1])
                   = [name |-> image_name, tag |-> image_tag]
       /\ tag = NoTag => new_manifest.repo_tags = <<>>
       /\ tag = Str("repo") => new_manifest.repo_tags = << << <<"repo", ":", "latest">> >> >>
       /\ tag = << <<"repo", ":", "v2">> >> => new_manifest.repo_tags = <<tag>>
       /\ tag \in {<< <<"repo", ":">> >>, << <<":", "v2">> >>} => new_manifest.repo_tags = <<>>
       /\ image_id = Sha256Hex(DumpConfig(new_config))
       /\ new_manifest.config = WithSuffix(image_id, ".json")
       /\ tmp_dir_exists => config_file = new_manifest.config

C12_Witness ==
    /\ pc = "squashed" /\ is_tar_input
    /\ tag = << <<"host", ":", "5000">>, <<"repo">> >>
    /\ new_manifest.repo_tags = << << <<"host", ":", "5000">>, <<"repo", ":", "latest">> >> >>
    /\ config_file = new_manifest.config

(***************************************************************************)
(* C13: when the manifest lists as many layers as the history has          *)
(* non-empty entries, the normalized list has one element per history      *)
(* entry, in order; the element is a placeholder exactly where the entry   *)
(* is marked empty, and the other elements name the manifest's layers in   *)
(* manifest order, each layer once.                                        *)
(***************************************************************************)
\* The identifier names the j-th manifest layer.
NamesLayer(layer_id, j) ==
    \E c \in 1..Len(layer_id) : \E t \in 1..Len(layer_id[c]) :
        <<layer_id[c][t]>> = LayerHex(j)[1]

\* The normalizer ran on an image whose two counts agree.
NormalizedConsistent ==
    Planned /\ kind \in LayeredKinds /\ NonEmptyCount(hist) = manifest_count

C13_NormalizedList ==
    NormalizedConsistent
    => /\ Len(old_image_layers) = Len(hist)
       /\ \A i \in 1..Len(old_image_layers) :
             i <= Len(hist) => (IsMissing(old_image_layers[i]) <=> hist[i])
       /\ LET real == SelectSeq(old_image_layers, NotMissing) IN
          /\ Len(real) = manifest_count
          /\ \A j \in 1..Len(real) : \A n \in 1..manifest_count :
                NamesLayer(real[j], n) <=> n = j

(***************************************************************************)
(* C14: an extracted archive is classified as OCI when it has an index     *)
(* file, with or without a flat manifest file, as Docker-v2 when it has    *)
(* only the flat manifest file, and fails with a format error when it has  *)
(* neither; an index without manifests, a missing manifest blob or config  *)
(* blob, a manifest without a config and an empty manifest array each fail *)
(* with an error and leave no manifest and no config loaded.               *)
(***************************************************************************)
\* The archive was extracted and the detector and the loader have run.
Detected == is_tar_input /\ pc # "run" /\ (output_path \/ load_image) /\ kind # "corrupt"

IndexPresent == Str("index.json") \in ArchiveFiles(kind, manifest_count)
FlatManifestPresent == Str("manifest.json") \in ArchiveFiles(kind, manifest_count)

\* What the archive lacks, for the dialect its markers announce.
OciDeficient ==
    LET files == ArchiveFiles(kind, manifest_count)
        blob == ManifestBlobContent(kind, manifest_count)
    IN \/ IndexManifests(kind) = <<>>
       \/ ManifestBlob \notin files
       \/ blob.media = "index" /\ (blob.manifests = <<>> \/ NestedManifestBlob \notin files)
       \/ blob.media = "manifest" /\ blob.manifest.config = <<>>
       \/ ConfigBlob \notin files

DockerDeficient ==
    \/ DockerManifests(kind, manifest_count) = <<>>
    \/ DockerManifests(kind, manifest_count)[1].config \notin ArchiveFiles(kind, manifest_count)

NothingLoaded == old_image_manifest = NoManifest /\ old_image_config = NoConfig

C14_DetectionAndLoadErrors ==
    Detected
    => /\ IndexPresent => oci_format /\ exc_site # "_detect_image_format"
       /\ (~IndexPresent /\ FlatManifestPresent)
          => ~oci_format /\ exc_site # "_detect_image_format"
       /\ (~IndexPresent /\ ~FlatManifestPresent)
          => /\ pc = "failed" /\ exc = "SquashError"
             /\ exc_site = "_detect_image_format" /\ NothingLoaded
       /\ (IndexPresent /\ OciDeficient)
          => pc = "failed" /\ exc # "" /\ exc_site \in ConstructSites /\ NothingLoaded
       /\ (~IndexPresent /\ FlatManifestPresent /\ DockerDeficient)
          => pc = "failed" /\ exc # "" /\ exc_site \in ConstructSites /\ NothingLoaded

(***************************************************************************)
(* C15: in every new config a squash produces, there are as many diff IDs  *)
(* as history entries not marked empty; the diff IDs are the source diff   *)
(* IDs of the moved non-empty layers, then the squashed layer's diff ID    *)
(* when the squash range had content; the appended history entry is marked *)
(* empty exactly when the squash range had no content.                     *)
(***************************************************************************)
ConfigProduced == new_config # NoConfig

NonEmptyEntries(history) == Cardinality({i \in 1..Len(history) : ~history[i].empty_layer})

C15_DiffIdsMatchHistory ==
    ConfigProduced
    => /\ Len(new_config.diff_ids) = NonEmptyEntries(new_config.history)
       /\ new_config.diff_ids =
             Prefix(SourceDiffIds(manifest_count), RealCount(layers_to_move))
             \o (IF RealCount(layers_to_squash) > 0
                 THEN <<Sha256Prefix(Last(diff_ids))>> ELSE <<>>)
       /\ Last(new_config.history).origin = "squash"
       /\ Last(new_config.history).empty_layer <=> RealCount(layers_to_squash) = 0

(***************************************************************************)
(* C16: for the squashed layer, parent and the run-config image pointer    *)
(* agree across the metadata hashed into the legacy directory ID, the      *)
(* legacy per-layer JSON and the new config: parent identifies the last    *)
(* moved layer and is absent exactly when no layer is moved; the image     *)
(* pointer identifies the boundary layer and is the empty string exactly   *)
(* when squashing from the root; the hashed metadata has no history,       *)
(* rootfs or container field and its os key comes after layer_id.          *)
(***************************************************************************)
\* x identifies the given layer of the normalized list: the placeholder
\* itself, or a name of the same stored layer, with or without "sha256:".
IdentifiesLayer(x, layer) ==
    IF IsMissing(layer) THEN x \in {layer, Sha256Prefix(layer)}
    ELSE \E j \in 1..MaxLayers : NamesLayer(layer, j) /\ NamesLayer(x, j)

\* parent is there exactly when `moved` has a layer, and identifies its last.
ParentOfLastMoved(keys, parent, moved) ==
    /\ HasKey(keys, "parent") <=> moved # <<>>
    /\ HasKey(keys, "parent") => IdentifiesLayer(parent, Last(moved))

\* The image pointer is "" exactly when `moved` is empty, and identifies its last.
PointerToBoundary(image, moved) ==
    /\ image = <<>> <=> moved = <<>>
    /\ image # <<>> => IdentifiesLayer(image, Last(moved))

LegacyIdHashed == v1_metadata # NoV1Metadata
LegacyJsonWritten == last_layer_metadata # NoLayerMetadata

\* The three outputs agree, `moved` being the layers that count as moved.
ParentAndPointerAgree(moved) ==
    /\ LegacyIdHashed
       => /\ ParentOfLastMoved(v1_metadata.keys, v1_metadata.parent, moved)
          /\ PointerToBoundary(v1_metadata.image, moved)
          /\ PointerToBoundary(new_config.image, moved)
          /\ new_config.image = v1_metadata.image
          /\ ~HasKey(v1_metadata.keys, "history")
          /\ ~HasKey(v1_metadata.keys, "rootfs")
          /\ ~HasKey(v1_metadata.keys, "container")
          /\ HasKey(v1_metadata.keys, "layer_id")
          /\ HasKey(v1_metadata.keys, "os")
             => KeyPos(v1_metadata.keys, "os") > KeyPos(v1_metadata.keys, "layer_id")
    /\ LegacyJsonWritten
       => /\ ParentOfLastMoved(last_layer_metadata.keys, last_layer_metadata.parent, moved)
          /\ PointerToBoundary(last_layer_metadata.image, moved)
          /\ last_layer_metadata.image = v1_metadata.image
          /\ HasKey(last_layer_metadata.keys, "parent")
             => v1_metadata.parent = Sha256Prefix(last_layer_metadata.parent)

WellFormedImage == kind \in LayeredKinds /\ NonEmptyCount(hist) = manifest_count

\* The flag and the dialect of the manifest the archive loader returned.
FlagNamesDialect == oci_format <=> old_image_manifest.dialect = "oci"

C17_ManifestDialectMatchesFlag ==
    (WellFormedImage /\ Planned)
    => /\ is_tar_input => FlagNamesDialect
       /\ exc # "KeyError"
       /\ old_image_manifest.layers # <<>> => old_image_layers # <<>>

(***************************************************************************)
(* C18: once the new config, the legacy directory ID and the new manifest  *)
(* have been generated, the source config's history, rootfs diff IDs,      *)
(* container field and run-config image pointer and the source manifest's  *)
(* layer list have the values they had when loaded.                        *)
(***************************************************************************)
ManifestGenerated == new_manifest # NoNewManifest

\* The layer list of the manifest as loaded.
LoadedManifestLayers ==
    IF old_image_manifest.dialect = "oci" THEN OciManifest(manifest_count).layers
    ELSE DockerManifest(kind, manifest_count).layers

C18_SourceSnapshotUnchanged ==
    ManifestGenerated
    => /\ old_image_config.history = SourceConfig(hist, manifest_count).history
       /\ old_image_config.diff_ids = SourceConfig(hist, manifest_count).diff_ids
       /\ old_image_config.image = SourceConfig(hist, manifest_count).image
       /\ HasKey(old_image_config.keys, "container")
       /\ old_image_manifest.layers = LoadedManifestLayers

(***************************************************************************)
(* C19: the source image is removed from the engine only if cleanup was    *)
(* requested and the tag differs from the source image name, and only      *)
(* after the squash, the export (when an output path is given), the load   *)
(* (when selected) and the working-directory cleanup completed; a failure  *)
(* to inspect or remove the source image never fails the run, which still  *)
(* returns the new image ID; the working directory is cleaned up at most   *)
(* once per run.                                                           *)
(***************************************************************************)
C19_SourceRemovalAndCleanup ==
    /\ source_removed
       => /\ cleanup_requested
          /\ tag # ImageArg(is_tar_input)
          /\ SquashSucceeded
          /\ output_path => exported
          /\ load_image => loaded
          /\ ~development => ~tmp_dir_exists
    /\ exc_site # "_cleanup"
    /\ (pc = "done" /\ SquashRan) => (returned = image_id /\ returned # <<>>)
    /\ cleanups <= 1

(***************************************************************************)
(* C20: for a Docker-v2 archive of either layout, distinct manifest layer  *)
(* references give distinct identifiers in the normalized list, each       *)
(* identifier resolves to the file of the layer it came from, and a        *)
(* placeholder of an empty layer resolves to no file.                      *)
(***************************************************************************)
\* The normalizer ran on a Docker-v2 archive.
DockerArchiveNormalized ==
    Planned /\ is_tar_input /\ kind \in {"docker_dirs", "docker_blobs"}

C20_IdentifiersResolve ==
    DockerArchiveNormalized
    => LET real == SelectSeq(old_image_layers, NotMissing) IN
       /\ \A i, j \in 1..Len(real) :
             old_image_manifest.layers[i] # old_image_manifest.layers[j] => real[i] # real[j]
       /\ \A j \in 1..Len(real) :
             ExtractTarName(TRUE, oci_format, real[j]) = old_image_manifest.layers[j]
       /\ \A i \in 1..Len(old_image_layers) :
             IsMissing(old_image_layers[i])
             => ExtractTarName(TRUE, oci_format, old_image_layers[i]) = <<>>

====
